---- MODULE Spec2Model ----
(***************************************************************************)
(* A model of the Pomodoro tracker's persisted state (users, user_settings, *)
(* pomodoro_sessions) and of the request handlers of app/routes.py that    *)
(* read and write it.  Every handler that commits once is one action; the  *)
(* /settings and /register handlers, which read and then commit, or commit *)
(* twice, are split at those points, since the server runs requests in     *)
(* concurrent threads.                                                      *)
(***************************************************************************)
EXTENDS Integers, Sequences, FiniteSets, TLC

VARIABLES
    users,      \* ids of the committed rows of table users
    settings,   \* committed rows of table user_settings
    sessions,   \* committed rows of table pomodoro_sessions
    now,        \* the server clock, in minutes since 00:00 UTC of day 0
    req,        \* the /settings requests in flight
    reg,        \* users whose /register request is between its two commits
    resp,       \* the JSON body of the last /api/session response
    calls,      \* per user, the start_session and complete_session calls made
    dash,       \* the /dashboard request in flight and the figures it read
    pages,      \* the /history pages a user was served, first page first
    timer       \* the timer page open in a user's browser

vars == <<users, settings, sessions, now, req, reg, resp, calls,
          dash, pages, timer>>

\* the pages being served and the browser's timer, which no write to the
\* store touches
front == <<dash, pages, timer>>

-----------------------------------------------------------------------------
(* Bounds of the model *)

\* rows the ledger may hold
MaxRows == 2
\* last day of the clock in the ledger specification
MaxDay == 1
\* /settings requests in flight at once
MaxReq == 2
\* the largest id a row of table user_settings may take
MaxSettings == 4

-----------------------------------------------------------------------------
(* Values *)

\* SQL NULL, and a key absent from the request's JSON
NULL == << >>
Some(x) == <<x>>

MinutesPerDay == 24 * 60

\* func.date(started_at): the calendar day of an instant
DateOf(t) == t \div MinutesPerDay

\* data.get(key, default)
Get(v, default) == IF v = NULL THEN default ELSE v[1]

\* no /dashboard request is being served
NoDashboard ==
    [pc |-> "idle", user |-> 0, today |-> 0, today_sessions |-> 0,
     week_sessions |-> 0, total_sessions |-> 0, total_duration |-> 0,
     total_hours |-> 0, weekly_data |-> << >>, recent_sessions |-> << >>]

\* no /history page was served
NoPages == [user |-> 0, served |-> << >>]

\* no timer page is open
NoTimer == [page |-> "closed"]

DefaultDuration == 25
DefaultSessionType == "work"

\* the users of the ledger and statistics specifications
Users == {1, 2}

\* the primary key SQLite gives a new row: one more than the largest in use
NextId(rows) ==
    IF rows = {} THEN 1
    ELSE (CHOOSE i \in {r.id : r \in rows} : \A r \in rows : r.id <= i) + 1

-----------------------------------------------------------------------------
(* Table pomodoro_sessions *)

\* PomodoroSession(...): a new row; completed defaults to False and
\* completed_at to NULL
PomodoroSession(id, u, d, t, c, s, e) ==
    [id |-> id, user_id |-> u, duration |-> d, session_type |-> t,
     completed |-> c, started_at |-> s, completed_at |-> e]

RowsOf(u) == {r \in sessions : r.user_id = u}

\* start_session with started_at taken from the request when it sends one
start_session_client_clock(u, duration, session_type, client_started_at) ==
    LET session == PomodoroSession(NextId(sessions), u,
                                   Get(duration, DefaultDuration),
                                   Get(session_type, DefaultSessionType),
                                   FALSE, Get(client_started_at, now), NULL)
    IN /\ u \in users
       /\ Cardinality(sessions) < MaxRows
       /\ sessions' = sessions \cup {session}
       /\ resp' = [op |-> "start", user |-> u, session_id |-> session.id,
                   total_sessions |-> NULL]
       /\ calls' = [calls EXCEPT ![u].start = @ + 1]
       /\ UNCHANGED <<users, settings, now, req, reg, front>>

\* POST /api/session/start.  The request's JSON may carry duration and
\* session_type; any other key (here a client's own started_at) is not read.
start_session(u, duration, session_type, client_started_at) ==
    LET session == PomodoroSession(NextId(sessions), u,
                                   Get(duration, DefaultDuration),
                                   Get(session_type, DefaultSessionType),
                                   FALSE, now, NULL)
    IN /\ u \in users
       /\ Cardinality(sessions) < MaxRows
       /\ sessions' = sessions \cup {session}
       /\ resp' = [op |-> "start", user |-> u, session_id |-> session.id,
                   total_sessions |-> NULL]
       /\ calls' = [calls EXCEPT ![u].start = @ + 1]
       /\ UNCHANGED <<users, settings, now, req, reg, front>>

\* Qualifying without the filter on completed
QualifyingAnyStatus(u) ==
    {r \in sessions : r.user_id = u /\ r.session_type = "work"}

\* the rows every statistic counts: the user's completed work sessions
Qualifying(u) ==
    {r \in sessions : /\ r.user_id = u
                      /\ r.session_type = "work"
                      /\ r.completed = TRUE}

\* count_on_date on the day a session was completed
count_on_date_completed(u, day) ==
    Cardinality({r \in Qualifying(u) : DateOf(r.completed_at[1]) = day})

\* ...filter(func.date(started_at) == day).count()
count_on_date(u, day) ==
    Cardinality({r \in Qualifying(u) : DateOf(r.started_at) = day})

\* ...filter(func.date(started_at) >= day).count()
count_since(u, day) ==
    Cardinality({r \in Qualifying(u) : DateOf(r.started_at) >= day})

total_count(u) == Cardinality(Qualifying(u))

RECURSIVE SumDuration(_)
SumDuration(rows) ==
    IF rows = {} THEN 0
    ELSE LET r == CHOOSE x \in rows : TRUE
         IN r.duration + SumDuration(rows \ {r})

\* func.sum(duration) ... .scalar() or 0
total_focus_minutes(u) == SumDuration(Qualifying(u))

\* weekly_data: for i in range(7), the count on day today - (6 - i)
weekly_histogram(u, today) ==
    [i \in 1..7 |-> count_on_date(u, today - (6 - (i - 1)))]

\* week_sessions with the threshold of the histogram, today - 6 days
week_sessions_of_histogram(u, today) == count_since(u, today - 6)

\* week_sessions: the count since week_ago = today - 7 days
week_sessions(u, today) == count_since(u, today - 7)

\* complete_session with started_at left at the clock
complete_session_now(u, duration, session_type) ==
    LET session == PomodoroSession(NextId(sessions), u,
                                   Get(duration, DefaultDuration),
                                   Get(session_type, DefaultSessionType),
                                   TRUE, now, Some(now))
    IN /\ u \in users
       /\ Cardinality(sessions) < MaxRows
       /\ sessions' = sessions \cup {session}
       /\ resp' = [op |-> "complete", user |-> u, session_id |-> session.id,
                   total_sessions |-> Some(total_count(u)')]
       /\ calls' = [calls EXCEPT ![u].complete = @ + 1]
       /\ UNCHANGED <<users, settings, now, req, reg, front>>

\* complete_session that completes the user's pending row when there is one
complete_session_lookup(u, duration, session_type) ==
    LET open == {r \in RowsOf(u) : r.completed = FALSE}
    IN IF open = {}
       THEN complete_session_now(u, duration, session_type)
       ELSE \E p \in open :
               /\ u \in users
               /\ sessions' = (sessions \ {p}) \cup
                     {[p EXCEPT !.completed = TRUE,
                                !.completed_at = Some(now)]}
               /\ resp' = [op |-> "complete", user |-> u,
                           session_id |-> p.id,
                           total_sessions |-> Some(total_count(u)')]
               /\ calls' = [calls EXCEPT ![u].complete = @ + 1]
               /\ UNCHANGED <<users, settings, now, req, reg, front>>

\* The session cycle policy.  After a work session: a long break when the
\* count of completed work sessions of the cycle is a multiple of
\* long_break_interval, a short break otherwise.
next_session_type(user_settings, completed_work_count_in_cycle) ==
    IF /\ completed_work_count_in_cycle > 0
       /\ completed_work_count_in_cycle % user_settings.long_break_interval = 0
    THEN "long_break"
    ELSE "short_break"

\* The policy applied to a user's rows: work when nothing is completed yet
\* or the latest completed session is a break; otherwise next_session_type
\* of the work sessions completed since the latest long break.
suggested_type(rows, user_settings) ==
    LET done == {r \in rows : r.completed = TRUE}
        last == CHOOSE r \in done : \A o \in done : o.id <= r.id
        long == {r \in done : r.session_type = "long_break"}
        cycle == {r \in done : /\ r.session_type = "work"
                               /\ \A b \in long : b.id < r.id}
    IN IF done = {} THEN "work"
       ELSE IF last.session_type # "work" THEN "work"
       ELSE next_session_type(user_settings, Cardinality(cycle))

\* complete_session that answers without a row when the session_type is not
\* the one the policy suggests
complete_session_in_cycle(u, duration, session_type) ==
    LET mine == {s \in settings : s.user_id = u}
        user_settings == CHOOSE s \in mine : \A o \in mine : s.id <= o.id
        session == PomodoroSession(NextId(sessions), u,
                                   Get(duration, DefaultDuration),
                                   Get(session_type, DefaultSessionType),
                                   TRUE,
                                   now - Get(duration, DefaultDuration),
                                   Some(now))
    IN /\ u \in users
       /\ Cardinality(sessions) < MaxRows
       /\ IF session.session_type = suggested_type(RowsOf(u), user_settings)
          THEN /\ sessions' = sessions \cup {session}
               /\ resp' = [op |-> "complete", user |-> u,
                           session_id |-> session.id,
                           total_sessions |-> Some(total_count(u)')]
               /\ calls' = [calls EXCEPT ![u].complete = @ + 1]
          ELSE /\ resp' = [op |-> "complete", user |-> u,
                           session_id |-> 0, total_sessions |-> NULL]
               /\ UNCHANGED <<sessions, calls>>
       /\ UNCHANGED <<users, settings, now, req, reg, front>>

\* POST /api/session/complete: a new row, already completed, whose start is
\* computed back from the clock; no row of the ledger is looked up.
complete_session(u, duration, session_type) ==
    LET session == PomodoroSession(NextId(sessions), u,
                                   Get(duration, DefaultDuration),
                                   Get(session_type, DefaultSessionType),
                                   TRUE,
                                   now - Get(duration, DefaultDuration),
                                   Some(now))
    IN /\ u \in users
       /\ Cardinality(sessions) < MaxRows
       /\ sessions' = sessions \cup {session}
       /\ resp' = [op |-> "complete", user |-> u, session_id |-> session.id,
                   total_sessions |-> Some(total_count(u)')]
       /\ calls' = [calls EXCEPT ![u].complete = @ + 1]
       /\ UNCHANGED <<users, settings, now, req, reg, front>>

\* POST /api/session/complete up to its commit (lines 225-241): the row is
\* added and committed; the handler (in slot i of the requests in flight)
\* holds the session object
complete_session_commit(i, u, duration, session_type) ==
    LET session == PomodoroSession(NextId(sessions), u,
                                   Get(duration, DefaultDuration),
                                   Get(session_type, DefaultSessionType),
                                   TRUE,
                                   now - Get(duration, DefaultDuration),
                                   Some(now))
    IN /\ u \in users
       /\ req[i].pc = "idle"
       /\ \A j \in 1..(i - 1) : req[j].pc # "idle"
       /\ Cardinality(sessions) < MaxRows
       /\ sessions' = sessions \cup {session}
       /\ req' = [req EXCEPT ![i] = [pc |-> "count", user |-> u,
                                     loaded |-> Some(session)]]
       /\ calls' = [calls EXCEPT ![u].complete = @ + 1]
       /\ UNCHANGED <<users, settings, now, reg, resp, front>>

\* POST /api/session/complete from its count on (lines 243-254): a query of
\* its own, run after the commit, on the ledger as it then stands
complete_session_count(i) ==
    /\ req[i].pc = "count"
    /\ resp' = [op |-> "complete", user |-> req[i].user,
                session_id |-> req[i].loaded[1].id,
                total_sessions |-> Some(total_count(req[i].user))]
    /\ req' = [req EXCEPT ![i] = [pc |-> "idle", user |-> 0,
                                  loaded |-> NULL]]
    /\ UNCHANGED <<users, settings, sessions, now, reg, calls, front>>

\* GET /api/stats, lines 260-267: today's count
get_stats_today(i, u) ==
    /\ u \in users
    /\ req[i].pc = "idle"
    /\ \A j \in 1..(i - 1) : req[j].pc # "idle"
    /\ req' = [req EXCEPT ![i] =
                  [pc |-> "stats", user |-> u,
                   loaded |-> Some(count_on_date(u, DateOf(now)))]]
    /\ UNCHANGED <<users, settings, sessions, now, reg, resp, calls, front>>

\* GET /api/stats, lines 269-278: the total count, and the answer
get_stats_total(i) ==
    /\ req[i].pc = "stats"
    /\ resp' = [op |-> "stats", user |-> req[i].user, session_id |-> 0,
                today_sessions |-> req[i].loaded,
                total_sessions |-> Some(total_count(req[i].user))]
    /\ req' = [req EXCEPT ![i] = [pc |-> "idle", user |-> 0,
                                  loaded |-> NULL]]
    /\ UNCHANGED <<users, settings, sessions, now, reg, calls, front>>

\* PomodoroSession.complete_session(self) of models.py: the row is marked
\* completed and stamped with the clock, whatever it held before
PomodoroSession_complete_session(r) ==
    /\ r \in sessions
    /\ sessions' = (sessions \ {r}) \cup
                       {[r EXCEPT !.completed = TRUE,
                                  !.completed_at = Some(now)]}
    /\ UNCHANGED <<users, settings, now, req, reg, resp, calls, front>>

-----------------------------------------------------------------------------
(* The pages that read the ledger *)

\* ...order_by(PomodoroSession.started_at.desc()): the rows, latest start
\* first.  The query names no second key; SQLite, the configured store,
\* returns rows of equal started_at in the order of their ids.
order_by_started_at_desc(rows) ==
    LET before(x, y) == \/ x.started_at > y.started_at
                        \/ x.started_at = y.started_at /\ x.id < y.id
        rank == [r \in rows |->
                    Cardinality({x \in rows : before(x, r)}) + 1]
    IN [k \in 1..Cardinality(rows) |-> CHOOSE r \in rows : rank[r] = k]

\* .limit(n).all(), as the ids of the rows returned
Limit(q, n) == [i \in 1..(IF Len(q) < n THEN Len(q) ELSE n) |-> q[i].id]

RecentLimit == 10

\* floor(log2(p / d)) for positive integers p and d
RECURSIVE Log2Floor(_, _)
Log2Floor(p, d) ==
    IF p >= 2 * d THEN 1 + Log2Floor(p, 2 * d)
    ELSE IF p < d THEN Log2Floor(2 * p, d) - 1
    ELSE 0

RECURSIVE PowMod(_, _, _)
PowMod(b, e, n) == IF e = 0 THEN 1 % n ELSE (b * PowMod(b, e - 1, n)) % n

\* total_duration / 60 is a double: the quotient p / d rounded to 53
\* significant bits.  With e the exponent that scales p / d into
\* [2^52, 2^53), the remainder of p * 2^e by d tells how the double lies to
\* the quotient: -1 below it, 0 equal to it, 1 above it.
DoubleSide(p, d) ==
    LET r == (p * PowMod(2, 52 - Log2Floor(p, d), d)) % d
    IN IF r = 0 THEN 0 ELSE IF 2 * r < d THEN 0 - 1 ELSE 1

\* round(total_duration / 60, 1), in tenths of an hour.  round() rounds the
\* double correctly, to the even tenth when the double is half-way between
\* two tenths; the quotient is half-way when total_duration = 6q + 3, and
\* then the double is the quotient (2q + 1) / 20 only if that has 53 bits.
RECURSIVE total_hours(_)
total_hours(total_duration) ==
    IF total_duration < 0 THEN 0 - total_hours(0 - total_duration)
    ELSE LET q == total_duration \div 6
             rem == total_duration % 6
             side == DoubleSide(2 * q + 1, 20)
         IN IF rem < 3 THEN q
            ELSE IF rem > 3 THEN q + 1
            ELSE IF side < 0 THEN q
            ELSE IF side > 0 THEN q + 1
            ELSE IF q % 2 = 0 THEN q ELSE q + 1

\* GET /dashboard, lines 92-93: the request of user u reads the clock.  (The
\* browser that opens the dashboard leaves the history it was showing.)
dashboard_begin(u) ==
    /\ dash.pc \in {"idle", "done"}
    /\ u \in users
    /\ dash' = [NoDashboard EXCEPT !.pc = "today_sessions", !.user = u,
                                   !.today = DateOf(now)]
    /\ pages' = NoPages
    /\ UNCHANGED <<users, settings, sessions, now, req, reg, resp, calls,
                   timer>>

\* GET /dashboard, lines 96-153: the next query of the request.  Each query
\* is a statement of its own and reads the rows committed when it runs.
dashboard_query ==
    LET u == dash.user
        i == Len(dash.weekly_data)
    IN /\ dash.pc \notin {"idle", "done"}
       /\ dash' =
             CASE dash.pc = "today_sessions" ->
                    [dash EXCEPT !.today_sessions =
                                     count_on_date(u, dash.today),
                                 !.pc = "week_sessions"]
               [] dash.pc = "week_sessions" ->
                    [dash EXCEPT !.week_sessions =
                                     week_sessions(u, dash.today),
                                 !.pc = "total_sessions"]
               [] dash.pc = "total_sessions" ->
                    [dash EXCEPT !.total_sessions = total_count(u),
                                 !.pc = "total_duration"]
               [] dash.pc = "total_duration" ->
                    [dash EXCEPT !.total_duration = total_focus_minutes(u),
                                 !.total_hours =
                                     total_hours(total_focus_minutes(u)),
                                 !.pc = "weekly_data"]
               [] dash.pc = "weekly_data" ->
                    [dash EXCEPT !.weekly_data =
                                     Append(@, count_on_date(u,
                                               dash.today - (6 - i))),
                                 !.pc = IF i = 6 THEN "recent_sessions"
                                        ELSE "weekly_data"]
               [] dash.pc = "recent_sessions" ->
                    [dash EXCEPT !.recent_sessions =
                                     Limit(order_by_started_at_desc(RowsOf(u)),
                                           RecentLimit),
                                 !.pc = "done"]
       /\ UNCHANGED <<users, settings, sessions, now, req, reg, resp, calls,
                      pages, timer>>

PerPage == 20

\* history with the offset of a page taken as page * per_page
history_offset_by_page(u, page) ==
    LET p == IF page < 1 THEN 1 ELSE page
        q == order_by_started_at_desc(RowsOf(u))
        left == Len(q) - p * PerPage
        n == IF left < 0 THEN 0 ELSE IF left > PerPage THEN PerPage ELSE left
        items == [i \in 1..n |-> q[p * PerPage + i].id]
    IN /\ u \in users
       /\ pages' = [user |-> u,
                    served |-> IF p = 1 THEN <<items>>
                               ELSE Append(pages.served, items)]
       /\ UNCHANGED <<users, settings, sessions, now, req, reg, resp, calls,
                      dash, timer>>

\* GET /history?page=...: paginate(page, per_page=20, error_out=False) of the
\* user's rows, latest start first: a page below 1 is served as page 1, a
\* page past the end is served empty.  The browser shows the page after the
\* ones it was served before, or starts over with page 1.
history(u, page) ==
    LET p == IF page < 1 THEN 1 ELSE page
        q == order_by_started_at_desc(RowsOf(u))
        left == Len(q) - (p - 1) * PerPage
        n == IF left < 0 THEN 0 ELSE IF left > PerPage THEN PerPage ELSE left
        items == [i \in 1..n |-> q[(p - 1) * PerPage + i].id]
    IN /\ u \in users
       /\ pages' = [user |-> u,
                    served |-> IF p = 1 THEN <<items>>
                               ELSE Append(pages.served, items)]
       /\ UNCHANGED <<users, settings, sessions, now, req, reg, resp, calls,
                      dash, timer>>

-----------------------------------------------------------------------------
(* The timer page of the browser, as its page object drives it and its tests
   expect it to answer *)

\* the countdown a freshly loaded page shows, "25:00", in minutes
InitialMinutes == 25
\* pause clicks followed on one page, until it is loaded again
MaxCycles == 3
\* seconds counted while the timer stands paused
MaxWait == 2
\* sessions one page runs to the end
MaxCompleted == 1

\* get_timer_value(): the text of the display, minutes and seconds "MM:SS"
get_timer_value(t) == <<t.remaining \div 60, t.remaining % 60>>

\* parse_timer_to_seconds(timer_string)
parse_timer_to_seconds(timer_string) ==
    (timer_string[1] * 60) + timer_string[2]

\* navigate(): the page is loaded afresh
navigate ==
    /\ timer' = [page |-> "open", remaining |-> InitialMinutes * 60,
                 running |-> FALSE, cycles |-> 0, waited |-> 0,
                 session_count |-> 0, clicked |-> "none"]
    /\ UNCHANGED <<users, settings, sessions, now, req, reg, resp, calls,
                   dash, pages>>

\* start_timer() that begins the countdown anew
start_timer_from_top ==
    /\ timer.page = "open"
    /\ ~timer.running
    /\ timer.remaining > 0
    /\ timer.session_count < MaxCompleted
    /\ timer' = [timer EXCEPT !.running = TRUE, !.waited = 0,
                              !.clicked = "start",
                              !.remaining = InitialMinutes * 60]
    /\ UNCHANGED <<users, settings, sessions, now, req, reg, resp, calls,
                   dash, pages>>

\* start_timer(): a click on the start button, shown while the timer stands
start_timer ==
    /\ timer.page = "open"
    /\ ~timer.running
    /\ timer.remaining > 0
    /\ timer.session_count < MaxCompleted
    /\ timer' = [timer EXCEPT !.running = TRUE, !.waited = 0,
                              !.clicked = "start"]
    /\ UNCHANGED <<users, settings, sessions, now, req, reg, resp, calls,
                   dash, pages>>

\* pause_timer(): a click on the pause button, shown while the timer runs
pause_timer ==
    /\ timer.page = "open"
    /\ timer.running
    /\ timer.cycles < MaxCycles
    /\ timer' = [timer EXCEPT !.running = FALSE, !.cycles = @ + 1,
                              !.waited = 0, !.clicked = "pause"]
    /\ UNCHANGED <<users, settings, sessions, now, req, reg, resp, calls,
                   dash, pages>>

\* reset_timer() that only stops the countdown
reset_timer_stops ==
    /\ timer.page = "open"
    /\ timer' = [timer EXCEPT !.running = FALSE, !.waited = 0,
                              !.clicked = "reset"]
    /\ UNCHANGED <<users, settings, sessions, now, req, reg, resp, calls,
                   dash, pages>>

\* reset_timer(): a click on the reset button, running or paused.  (The
\* pauses of the page stay counted until it is loaded again.)
reset_timer ==
    /\ timer.page = "open"
    /\ timer' = [timer EXCEPT !.remaining = InitialMinutes * 60,
                              !.running = FALSE, !.waited = 0,
                              !.clicked = "reset"]
    /\ UNCHANGED <<users, settings, sessions, now, req, reg, resp, calls,
                   dash, pages>>

\* a second passes in the browser: a running timer counts down and, at
\* zero, stops and counts the session; a standing timer only waits
second ==
    /\ timer.page = "open"
    /\ IF timer.running
       THEN timer' = [timer EXCEPT
                         !.remaining = @ - 1,
                         !.running = (timer.remaining > 1),
                         !.session_count =
                             IF timer.remaining = 1 THEN @ + 1 ELSE @]
       ELSE /\ timer.waited < MaxWait
            /\ timer' = [timer EXCEPT !.waited = @ + 1]
    /\ UNCHANGED <<users, settings, sessions, now, req, reg, resp, calls,
                   dash, pages>>

-----------------------------------------------------------------------------
(* The clock *)

\* the instants the clock is observed at: 00:10 of each day
Instants(lastDay) == {d * MinutesPerDay + 10 : d \in 0..lastDay}

\* datetime.now(timezone.utc) never runs backwards
Tick(instants) ==
    /\ \E t \in instants : t > now /\ now' = t
    /\ UNCHANGED <<users, settings, sessions, req, reg, resp, calls, front>>

-----------------------------------------------------------------------------
(* The ledger specification: two registered users call the session API *)

\* what a client may send
\* the JSON bodies: nothing, a duration of 10 minutes, a duration of minus a
\* day, each kind of break, a session_type that is none of the three
SessionTypes == {"work", "short_break", "long_break"}
Request(d, t) == [duration |-> d, session_type |-> t]
Requests ==
    { Request(NULL, NULL),
      Request(Some(10), Some("work")),
      Request(Some(0 - MinutesPerDay), Some("work")),
      Request(Some(10), Some("short_break")),
      Request(NULL, Some("long_break")),
      Request(NULL, Some("nap")) }
ClientClocks == {NULL, Some(0)}

NoResponse == [op |-> "none", user |-> 0, session_id |-> 0,
               total_sessions |-> NULL]

\* UserSettings(user_id=u): every other column takes its default
UserSettings(id, u) ==
    [id |-> id, user_id |-> u,
     work_duration |-> 25, short_break_duration |-> 5,
     long_break_duration |-> 15, long_break_interval |-> 4,
     auto_start_breaks |-> FALSE, auto_start_pomodoros |-> FALSE,
     notifications_enabled |-> TRUE, sound_enabled |-> TRUE,
     theme |-> "light"]


-----------------------------------------------------------------------------
(* Table user_settings and the /settings and /register handlers *)

IntFields == {"work_duration", "short_break_duration",
              "long_break_duration", "long_break_interval"}
BoolFields == {"auto_start_breaks", "auto_start_pomodoros",
               "notifications_enabled", "sound_enabled"}
FormFields == IntFields \cup BoolFields

\* RangeMin with the interval's minimum taken as 1, like the durations'
RangeMinOne(k) == 1

\* NumberRange(min=..., max=...) of each IntegerField of SettingsForm
RangeMin(k) == IF k = "long_break_interval" THEN 2 ELSE 1
RangeMax(k) ==
    CASE k = "work_duration" -> 60
      [] k = "short_break_duration" -> 30
      [] k = "long_break_duration" -> 60
      [] k = "long_break_interval" -> 10

\* An IntegerField's data is the integer sent, or None when the value sent
\* is missing or is no integer.  DataRequired stops on data that is falsy.
DataRequired(data) == data # NULL /\ data[1] # 0
NumberRange(data, min, max) ==
    data # NULL /\ data[1] >= min /\ data[1] <= max

\* form.validate(): every validator of every field (the request carries the
\* CSRF token of the page the form was rendered on)
validate(form) ==
    \A k \in IntFields :
        DataRequired(form[k]) /\ NumberRange(form[k], RangeMin(k), RangeMax(k))

\* form.validate_on_submit(): a submitted (POST) form that validates
validate_on_submit(method, form) == method = "POST" /\ validate(form)

\* field.data as populate_obj stores it
Data(form, k) == IF k \in IntFields THEN form[k][1] ELSE form[k]

\* form.populate_obj(user_settings); db.session.commit(): the attributes are
\* set on the object the request loaded, and the unit of work writes the
\* columns whose new value differs from the loaded one; the other columns of
\* the stored row keep the value they have in the database.
populate_obj(stored, loaded, form) ==
    [k \in DOMAIN stored |->
        IF k \in FormFields /\ Data(form, k) # loaded[k]
        THEN Data(form, k) ELSE stored[k]]

SettingsOf(u) == {r \in settings : r.user_id = u}

Idle == [pc |-> "idle", user |-> 0, loaded |-> NULL]

\* the ids that register: the first user of an empty store, and the third
\* of a store that holds two
Registrants == {1, 3}

\* POST /register, up to its first commit: the users row
register_user ==
    LET id == IF users = {} THEN 1
              ELSE (CHOOSE i \in users : \A j \in users : j <= i) + 1
    IN /\ id \in Registrants
       /\ users' = users \cup {id}
       /\ reg' = reg \cup {id}
       /\ UNCHANGED <<settings, sessions, now, req, resp, calls, front>>

\* POST /register, its second commit: the user's default settings
register_settings(u) ==
    /\ u \in reg
    /\ NextId(settings) <= MaxSettings
    /\ settings' = settings \cup {UserSettings(NextId(settings), u)}
    /\ reg' = reg \ {u}
    /\ UNCHANGED <<users, sessions, now, req, resp, calls, front>>

\* query.first() of a query that states no order: SQLite, the configured
\* store, scans the table by rowid, so the row of the least id is returned
first(rows) == CHOOSE r \in rows : \A o \in rows : r.id <= o.id

\* /settings, line 181: filter_by(user_id=...).first().  A user is logged in
\* as soon as its users row is committed.  (Requests are anonymous: a new
\* one takes the first free slot.)
settings_lookup(i, u) ==
    /\ req[i].pc = "idle"
    /\ \A j \in 1..(i - 1) : req[j].pc # "idle"
    /\ u \in users
    /\ IF SettingsOf(u) = {}
       THEN req' = [req EXCEPT ![i] =
                       [pc |-> "create", user |-> u, loaded |-> NULL]]
       ELSE req' = [req EXCEPT ![i] =
                       [pc |-> "form", user |-> u,
                        loaded |-> Some(first(SettingsOf(u)))]]
    /\ UNCHANGED <<users, settings, sessions, now, reg, resp, calls, front>>

\* /settings, lines 183-186: no row was found, so one is added and committed
settings_create(i) ==
    LET row == UserSettings(NextId(settings), req[i].user)
    IN /\ req[i].pc = "create"
       /\ NextId(settings) <= MaxSettings
       /\ settings' = settings \cup {row}
       /\ req' = [req EXCEPT ![i].pc = "form", ![i].loaded = Some(row)]
       /\ UNCHANGED <<users, sessions, now, reg, resp, calls, front>>

\* /settings, lines 188-196: the request's method and form are read; the form
\* is validated and, when it is valid, stored; otherwise the page is
\* rendered with the settings as they are
settings_submit(i, method, form) ==
    LET r == req[i]
        loaded == r.loaded[1]
        accepted == validate_on_submit(method, form)
    IN /\ r.pc = "form"
       /\ settings' =
             IF accepted
             THEN {IF s.id = loaded.id THEN populate_obj(s, loaded, form)
                   ELSE s : s \in settings}
             ELSE settings
       /\ resp' = [op |-> "settings", user |-> r.user, method |-> method,
                   accepted |-> accepted, row |-> loaded.id]
       /\ req' = [req EXCEPT ![i] = Idle]
       /\ UNCHANGED <<users, sessions, now, reg, calls, front>>

\* db.session.delete(user); db.session.commit(), as the test_user fixture
\* does.  The cascade of User.sessions deletes every session the query of
\* the relationship returns; User.settings is declared uselist=False, so the
\* relationship loads as one object, the first row of its query, and the
\* cascade deletes that row.  SQLite does not enforce the foreign keys.
delete_user(u) ==
    /\ u \in users
    /\ users' = users \ {u}
    /\ sessions' = {r \in sessions : r.user_id # u}
    /\ settings' = IF SettingsOf(u) = {} THEN settings
                   ELSE settings \ {first(SettingsOf(u))}
    /\ calls' = [v \in DOMAIN calls |->
                    IF v = u THEN [start |-> 0, complete |-> 0]
                    ELSE calls[v]]
    /\ UNCHANGED <<now, req, reg, resp, front>>

-----------------------------------------------------------------------------
(* The settings specification: users register and open /settings, each     *)
(* request in a thread of its own                                           *)

Flags(a, b, c, d) ==
    [auto_start_breaks |-> a, auto_start_pomodoros |-> b,
     notifications_enabled |-> c, sound_enabled |-> d]

SettingsFormData(w, s, l, n, flags) ==
    [work_duration |-> w, short_break_duration |-> s,
     long_break_duration |-> l, long_break_interval |-> n] @@ flags

\* forms a client may submit: one in range, at the ends of three ranges,
\* and six with one field out of its range
DefaultFlags == Flags(FALSE, FALSE, TRUE, TRUE)
NoForm == [k \in FormFields |-> NULL]
Forms ==
    { SettingsFormData(Some(60), Some(1), Some(60), Some(10),
                       Flags(TRUE, FALSE, FALSE, TRUE)),
      SettingsFormData(Some(61), Some(10), Some(20), Some(5), DefaultFlags),
      SettingsFormData(Some(30), Some(0), Some(20), Some(5), DefaultFlags),
      SettingsFormData(Some(30), Some(31), Some(20), Some(5), DefaultFlags),
      SettingsFormData(Some(30), Some(10), NULL, Some(5), DefaultFlags),
      SettingsFormData(Some(30), Some(10), Some(20), Some(1), DefaultFlags),
      SettingsFormData(Some(30), Some(10), Some(20), Some(11), DefaultFlags) }

InitSettings ==
    /\ users = {}
    /\ settings = {}
    /\ sessions = {}
    /\ now = 10
    /\ req = [i \in 1..MaxReq |-> Idle]
    /\ reg = {}
    /\ resp = NoResponse
    /\ calls = [u \in Users |-> [start |-> 0, complete |-> 0]]
    /\ dash = NoDashboard
    /\ pages = NoPages
    /\ timer = NoTimer

RegisterUser == register_user
RegisterSettings == \E u \in reg : register_settings(u)
SettingsLookup == \E i \in 1..MaxReq, u \in users : settings_lookup(i, u)
SettingsCreate == \E i \in 1..MaxReq : settings_create(i)
SettingsGet == \E i \in 1..MaxReq : settings_submit(i, "GET", NoForm)
SettingsPost == \E i \in 1..MaxReq, f \in Forms : settings_submit(i, "POST", f)

NextSettings ==
    \/ RegisterUser
    \/ RegisterSettings
    \/ SettingsLookup
    \/ SettingsCreate
    \/ SettingsGet
    \/ SettingsPost

SpecSettings == InitSettings /\ [][NextSettings]_vars

-----------------------------------------------------------------------------
(* The ledger specification, continued *)

\* the state after the users registered, one after the other
InitLedger ==
    /\ users = Users
    /\ settings = {UserSettings(u, u) : u \in Users}
    /\ sessions = {}
    /\ now = 10
    /\ req = [i \in 1..MaxReq |-> Idle]
    /\ reg = {}
    /\ resp = NoResponse
    /\ calls = [u \in Users |-> [start |-> 0, complete |-> 0]]
    /\ dash = NoDashboard
    /\ pages = NoPages
    /\ timer = NoTimer

StartCall ==
    \E u \in Users, q \in Requests, c \in ClientClocks :
        start_session(u, q.duration, q.session_type, c)

CompleteCall ==
    \E u \in Users, q \in Requests :
        complete_session(u, q.duration, q.session_type)

LedgerTick == Tick(Instants(MaxDay))

Next == StartCall \/ CompleteCall \/ LedgerTick

Spec == InitLedger /\ [][Next]_vars

-----------------------------------------------------------------------------
(* The model-layer specification: the session API together with the        *)
(* sessions' own complete operation                                         *)

CompleteMethod == \E r \in sessions : PomodoroSession_complete_session(r)

NextModels == StartCall \/ CompleteCall \/ LedgerTick \/ CompleteMethod

SpecModels == InitLedger /\ [][NextModels]_vars

-----------------------------------------------------------------------------
(* The session API as the threaded server runs it: the statements of the
   complete and stats handlers of several requests interleave *)

CompleteCommit ==
    \E i \in 1..MaxReq, u \in Users, q \in Requests :
        complete_session_commit(i, u, q.duration, q.session_type)
CompleteCount == \E i \in 1..MaxReq : complete_session_count(i)
StatsToday == \E i \in 1..MaxReq, u \in Users : get_stats_today(i, u)
StatsTotal == \E i \in 1..MaxReq : get_stats_total(i)

NextStats ==
    \/ CompleteCommit
    \/ CompleteCount
    \/ StatsToday
    \/ StatsTotal
    \/ LedgerTick

SpecStats == InitLedger /\ [][NextStats]_vars

-----------------------------------------------------------------------------
(* The dashboard specification: users complete sessions while a dashboard  *)
(* is being served                                                          *)

DashboardBegin == \E u \in Users : dashboard_begin(u)
DashboardQuery == dashboard_query

NextDashboard == CompleteCall \/ DashboardBegin \/ DashboardQuery

SpecDashboard == InitLedger /\ [][NextDashboard]_vars

-----------------------------------------------------------------------------
(* A week of the ledger, then the dashboard: sessions are completed over the
   days of a week and two days; once a dashboard is asked for nothing more is
   written *)

\* the instants of the week: 00:10 of its first day, of the day seven days
\* later and of the day after that
WeekInstants == {d * MinutesPerDay + 10 : d \in {0, 7, 8}}

\* the sessions completed: work of 10 minutes, work of minus a day, a break
WeekRequests ==
    { Request(Some(10), Some("work")),
      Request(Some(0 - MinutesPerDay), Some("work")),
      Request(Some(10), Some("short_break")) }

WeekCall ==
    /\ dash.pc = "idle"
    /\ \E u \in Users, q \in WeekRequests :
          complete_session(u, q.duration, q.session_type)

WeekTick == dash.pc = "idle" /\ Tick(WeekInstants)

NextWeek ==
    \/ WeekCall
    \/ WeekTick
    \/ DashboardBegin
    \/ DashboardQuery

SpecWeek == InitLedger /\ [][NextWeek]_vars

-----------------------------------------------------------------------------
(* The reading specification: the dashboard and the history of a ledger    *)
(* that earlier calls of the session API have filled                        *)

\* rows a ledger may hold, and the last page a browser asks for
MaxHistory == 41
MaxPage == 4

\* The ledgers: n calls of the session API, one a minute from 00:11 on.
\*   "mixed": every fifth call is user 2's, the others user 1's; the types
\*            rotate; every second call is a complete_session of 24 minutes,
\*            the others are start_session calls of 25 minutes: no two rows
\*            start at the same minute
\*   "ties":  as mixed, with complete_session calls of 1 minute, so that
\*            each completed row starts when the pending row before it did
\*   "focus": user 1 completes work sessions of 25, 25 and 10 minutes and
\*            then of 3 minutes each
Shapes == {"mixed", "ties", "focus"}

CallAt(i) == 10 + i

LedgerRow(i, shape) ==
    LET completed == shape = "focus" \/ i % 2 = 0
        duration == CASE shape = "mixed" -> IF completed THEN 24 ELSE 25
                      [] shape = "ties" -> IF completed THEN 1 ELSE 25
                      [] shape = "focus" ->
                            IF i <= 3 THEN <<25, 25, 10>>[i] ELSE 3
        type == IF shape = "focus" THEN "work"
                ELSE <<"work", "short_break", "long_break">>[(i % 3) + 1]
        u == IF shape # "focus" /\ i % 5 = 0 THEN 2 ELSE 1
    IN PomodoroSession(i, u, duration, type, completed,
                       IF completed THEN CallAt(i) - duration ELSE CallAt(i),
                       IF completed THEN Some(CallAt(i)) ELSE NULL)

Ledger(n, shape) == {LedgerRow(i, shape) : i \in 1..n}

\* the state after n calls of a shape
AfterCalls(n, shape) ==
    LET ledger == Ledger(n, shape)
        last == LedgerRow(n, shape)
        of(u) == {r \in ledger : r.user_id = u}
    IN /\ users = Users
       /\ settings = {UserSettings(u, u) : u \in Users}
       /\ sessions = ledger
       /\ now = CallAt(n)
       /\ req = [i \in 1..MaxReq |-> Idle]
       /\ reg = {}
       /\ resp = IF n = 0 THEN NoResponse
                 ELSE IF last.completed
                 THEN [op |-> "complete", user |-> last.user_id,
                       session_id |-> n,
                       total_sessions |->
                           Some(Cardinality(
                              {r \in of(last.user_id) :
                                  /\ r.session_type = "work"
                                  /\ r.completed = TRUE}))]
                 ELSE [op |-> "start", user |-> last.user_id,
                       session_id |-> n, total_sessions |-> NULL]
       /\ calls = [u \in Users |->
                      [start |-> Cardinality(
                           {r \in of(u) : r.completed = FALSE}),
                       complete |-> Cardinality(
                           {r \in of(u) : r.completed = TRUE})]]
       /\ dash = NoDashboard
       /\ pages = NoPages
       /\ timer = NoTimer

InitReads == \E n \in 0..MaxHistory, shape \in Shapes : AfterCalls(n, shape)

\* a browser that is not waiting for a dashboard asks for the first page of
\* the history, or for the page after the ones it has
HistoryBrowse ==
    \E u \in Users, page \in 0..MaxPage :
        /\ dash.pc \in {"idle", "done"}
        /\ page <= 1 \/ (u = pages.user /\ page = Len(pages.served) + 1)
        /\ history(u, page)

NextReads == DashboardBegin \/ DashboardQuery \/ HistoryBrowse

SpecReads == InitReads /\ [][NextReads]_vars

-----------------------------------------------------------------------------
(* The account specification: next to two users who have sessions, a third *)
(* registers; users open /settings; users are deleted                       *)

\* the calls the two users have made when the specification starts
AccountCalls == 5

InitAccount == AfterCalls(AccountCalls, "mixed")

DeleteUser == \E u \in users : delete_user(u)

NextAccount ==
    \/ RegisterUser
    \/ RegisterSettings
    \/ SettingsLookup
    \/ SettingsCreate
    \/ SettingsGet
    \/ DeleteUser

SpecAccount == InitAccount /\ [][NextAccount]_vars

-----------------------------------------------------------------------------
(* The timer page on its own: loads, clicks and seconds *)

NextTimer ==
    \/ navigate
    \/ start_timer
    \/ pause_timer
    \/ reset_timer
    \/ second

SpecTimer == InitLedger /\ [][NextTimer]_vars

-----------------------------------------------------------------------------
(* Claims about the ledger *)

Pending(u) == {r \in RowsOf(u) : r.completed = FALSE}
Completed(u) == {r \in RowsOf(u) : r.completed = TRUE}

\* the rows a step adds, and whether it adds just those
Added == sessions' \ sessions
AddsOneRow ==
    /\ Cardinality(Added) = 1
    /\ sessions' = sessions \cup Added
    /\ \A r \in Added : \A o \in sessions : o.id # r.id

\* C2: in every reachable state of the ledger a pending session has no
\* completed_at, and a completed session has a completed_at that is not
\* earlier than its started_at.
C2_LedgerInvariant ==
    \A r \in sessions :
        /\ r.completed = FALSE => r.completed_at = NULL
        /\ r.completed = TRUE =>
               /\ r.completed_at # NULL
               /\ r.completed_at[1] >= r.started_at

\* C5: complete_session adds exactly one row, owned by the caller, with
\* completed = true, completed_at = now and started_at = now - duration;
\* every row the ledger held before is still there, unchanged, and the
\* pending rows are the same as before.
C5_CompleteAddsOneCompletedRow ==
    [][\A u \in Users, q \in Requests :
          complete_session(u, q.duration, q.session_type) =>
             /\ AddsOneRow
             /\ \A r \in Added :
                   /\ r.user_id = u
                   /\ r.completed = TRUE
                   /\ r.completed_at = Some(now)
                   /\ r.started_at =
                         now - (IF q.duration = NULL THEN 25
                                ELSE q.duration[1])
             /\ \A v \in Users : Pending(v)' = Pending(v)]_vars

\* a complete_session call has just answered a user who holds a pending row
C5_Witness ==
    /\ resp.op = "complete"
    /\ \E r \in Completed(resp.user) : r.id = resp.session_id
    /\ \E r \in Pending(resp.user) : r.id < resp.session_id

\* C6: after s start_session and c complete_session calls of a user, in any
\* order, the ledger holds s + c rows of that user: s pending, c completed.
C6_RowsCountCalls ==
    \A u \in Users :
        /\ Cardinality(RowsOf(u)) = calls[u].start + calls[u].complete
        /\ Cardinality(Pending(u)) = calls[u].start
        /\ Cardinality(Completed(u)) = calls[u].complete

\* one start followed by one complete: two rows, one pending, one completed
C6_Witness ==
    \E u \in Users :
        /\ calls[u] = [start |-> 1, complete |-> 1]
        /\ resp.op = "complete" /\ resp.user = u
        /\ Cardinality(RowsOf(u)) = 2
        /\ \E r \in Pending(u) : r.id < resp.session_id

\* C7: start_session adds exactly one row, owned by the caller, pending,
\* with no completed_at, started at the server clock whatever the client
\* sent, with the requested duration (25 when absent) and session_type
\* ('work' when absent), and answers with that row's id.
C7_StartAddsOnePendingRow ==
    [][\A u \in Users, q \in Requests, c \in ClientClocks :
          start_session(u, q.duration, q.session_type, c) =>
             /\ AddsOneRow
             /\ \A r \in Added :
                   /\ r.user_id = u
                   /\ r.completed = FALSE
                   /\ r.completed_at = NULL
                   /\ r.started_at = now
                   /\ r.duration =
                         (IF q.duration = NULL THEN 25 ELSE q.duration[1])
                   /\ r.session_type =
                         (IF q.session_type = NULL THEN "work"
                          ELSE q.session_type[1])
                   /\ resp'.session_id = r.id]_vars

\* a start_session call with its own duration has just answered, at a clock
\* that differs from any the client could have sent
C7_Witness ==
    /\ resp.op = "start"
    /\ now > 10
    /\ \E r \in Pending(resp.user) :
          /\ r.id = resp.session_id
          /\ r.started_at = now
          /\ r.duration = 10

\* C8: every stored session has a session_type among work, short_break and
\* long_break (a call with any other session_type adds no row).
C8_StoredTypesValid ==
    \A r \in sessions : r.session_type \in {"work", "short_break", "long_break"}

-----------------------------------------------------------------------------
(* Claims about the statistics *)

RECURSIVE SumSeq(_)
SumSeq(q) == IF q = << >> THEN 0 ELSE q[1] + SumSeq(Tail(q))

\* the values of 'today' the statistics are asked for
Days == (0 - 1)..(MaxDay + 8)

\* the user's completed work sessions started on a day
StartedOn(u, day) ==
    {r \in sessions : /\ r.user_id = u /\ r.session_type = "work"
                      /\ r.completed = TRUE
                      /\ r.started_at >= day * MinutesPerDay
                      /\ r.started_at < (day + 1) * MinutesPerDay}

HistogramEntries(u, today) ==
    LET h == weekly_histogram(u, today)
    IN /\ DOMAIN h = 1..7
       /\ \A i \in 0..6 :
             h[i + 1] = Cardinality(StartedOn(u, today - 6 + i))

\* C9: in every ledger state, read on the clock's day, the histogram has 7
\* entries, entry i counts the user's completed work sessions started on day
\* today - 6 + i, and the entries sum to count_since(user, today - 6 days).
C9_HistogramSumsToCountSince ==
    \A u \in Users :
        LET today == DateOf(now)
        IN /\ HistogramEntries(u, today)
           /\ SumSeq(weekly_histogram(u, today)) = count_since(u, today - 6)

\* every figure of the dashboard and of /api/stats
Figures(u, today) ==
    <<count_on_date(u, today), week_sessions(u, today), total_count(u),
      total_focus_minutes(u), weekly_histogram(u, today)>>

\* C10: a new row that is pending, or is a break of any kind (or of no known
\* kind), or belongs to another user, changes none of the user's figures,
\* whatever 'today' is; a new completed work row of the user adds one to the
\* user's total.
C10_OnlyQualifyingRowsCount ==
    [][\A r \in Added : \A u \in Users :
          IF r.user_id = u /\ r.session_type = "work" /\ r.completed = TRUE
          THEN /\ total_count(u)' = total_count(u) + 1
               /\ total_focus_minutes(u)' = total_focus_minutes(u) + r.duration
          ELSE \A today \in Days :
                  Figures(u, today)' = Figures(u, today)]_vars

\* a user with one counted session has then added a row that is not counted
C10_Witness ==
    \E u \in Users :
        /\ total_count(u) = 1
        /\ \E r \in RowsOf(u) :
              /\ r.id = resp.session_id
              /\ r.id > 1
              /\ (r.completed = FALSE \/ r.session_type # "work")

\* the user's rows are one work session and one short break, both completed
\* by complete_session on the clock's day
WorkAndBreakToday(u) ==
    /\ Cardinality(RowsOf(u)) = 2
    /\ \E w, b \in Completed(u) :
          /\ w.session_type = "work"
          /\ b.session_type = "short_break"
          /\ DateOf(w.completed_at[1]) = DateOf(now)
          /\ DateOf(b.completed_at[1]) = DateOf(now)

\* C11 as claimed: after a user with no other sessions completed one work
\* session and one short_break session on a day, at any time of it and with
\* any duration, count_on_date for that day, read on that day, is 1.
C11_CountOnDateIsOne ==
    \A u \in Users :
        WorkAndBreakToday(u) => count_on_date(u, DateOf(now)) = 1

\* C11 as amended: the count is 1 when the work session's started_at, its
\* completion time minus its duration, falls on that day, and 0 when it
\* falls on another day; the break is not counted.
C11_CountOnDateByStart ==
    \A u \in Users :
        WorkAndBreakToday(u) =>
            \A w \in Completed(u) :
                w.session_type = "work" =>
                    count_on_date(u, DateOf(now)) =
                        (IF DateOf(w.completed_at[1] - w.duration)
                              = DateOf(now)
                         THEN 1 ELSE 0)

\* a work session of 10 minutes and a short break were completed at 00:10
C11_Witness ==
    \E u \in Users :
        /\ WorkAndBreakToday(u)
        /\ resp.op = "complete" /\ resp.user = u
        /\ count_on_date(u, DateOf(now)) = 1
        /\ \E b \in Completed(u) :
              b.session_type = "short_break"
                 /\ DateOf(b.started_at) = DateOf(now)

\* the policy's rule for the session after a work session, for every interval
\* the settings form accepts and every count of two cycles
AfterWorkRule ==
    \A k \in RangeMin("long_break_interval")..RangeMax("long_break_interval") :
        \A n \in 1..(2 * k) :
            next_session_type([UserSettings(1, 1)
                                  EXCEPT !.long_break_interval = k], n) =
               (IF n = k \/ n = 2 * k THEN "long_break" ELSE "short_break")

\* what the policy suggests to a user as the ledger stands
Suggested(u) == suggested_type(RowsOf(u), first(SettingsOf(u)))

\* C19: the policy suggests a long break after every long_break_interval-th
\* completed work session, a short break after any other work session and
\* work after a break; the ledger does not enforce it: a start_session or
\* complete_session call adds its row with the session_type it was sent,
\* whether or not that is the suggested one.
C19_PolicyIsAdvisory ==
    [][/\ AfterWorkRule
       /\ \A u \in Users : Suggested(u) \in SessionTypes
       /\ \A u \in Users : Completed(u) = {} => Suggested(u) = "work"
       /\ \A u \in Users : \A r \in Completed(u) :
             (/\ \A o \in Completed(u) : o.id <= r.id
              /\ r.session_type # "work") => Suggested(u) = "work"
       /\ \A u \in Users, q \in Requests :
             LET sent == IF q.session_type = NULL THEN "work"
                         ELSE q.session_type[1]
                 call == \/ complete_session(u, q.duration, q.session_type)
                         \/ \E c \in ClientClocks :
                               start_session(u, q.duration,
                                             q.session_type, c)
             IN call =>
                   /\ AddsOneRow
                   /\ \A r \in Added : r.user_id = u /\ r.session_type = sent
                   /\ resp'.session_id \in {r.id : r \in Added}]_vars

\* a user completed two sessions in a row and neither was of the type the
\* policy suggested at the time: a break with no work done, then work's
\* break skipped or a second break taken
C19_Witness ==
    \E u \in Users :
        \E a \in Completed(u), b \in Completed(u) :
            /\ a.id < b.id
            /\ RowsOf(u) = {a, b}
            /\ resp.op = "complete" /\ resp.session_id = b.id
            /\ a.session_type \in SessionTypes \ {"work"}
            /\ b.session_type \in SessionTypes
            /\ b.session_type #
                  suggested_type({a}, first(SettingsOf(u)))

\* C20: a pause click on a running timer leaves the display as it is; while
\* the timer stands paused and no button is clicked the display does not
\* change as seconds pass; a start click then leaves the display as it is
\* and sets the timer running, and each second of a running timer takes one
\* second off the display.  This holds in every pause/resume cycle.
C20_PauseHoldsDisplay ==
    [][timer.page = "open" =>
          /\ pause_timer =>
                /\ timer.running /\ ~timer'.running
                /\ get_timer_value(timer') = get_timer_value(timer)
          /\ (/\ ~timer.running /\ timer.cycles > 0
              /\ ~(start_timer \/ reset_timer \/ navigate)) =>
                /\ ~timer'.running
                /\ get_timer_value(timer') = get_timer_value(timer)
          /\ (start_timer /\ timer.cycles > 0) =>
                /\ timer'.running
                /\ get_timer_value(timer') = get_timer_value(timer)
          /\ (second /\ timer.running) =>
                parse_timer_to_seconds(get_timer_value(timer')) =
                   parse_timer_to_seconds(get_timer_value(timer)) - 1]_vars

\* the timer stands paused for the second time at least and a second has
\* passed since the click: it was paused, resumed and counted down before
C20_Witness ==
    /\ timer.page = "open"
    /\ ~timer.running
    /\ timer.cycles >= 2
    /\ timer.waited >= 1
    /\ parse_timer_to_seconds(get_timer_value(timer)) + 1 <
          InitialMinutes * 60

\* C21: a reset click, on a timer that runs or stands paused, whatever
\* time has elapsed, stops the timer and returns the display to 25:00, the
\* value a freshly loaded page shows before any start.
C21_ResetShowsInitial ==
    [][/\ navigate =>
             /\ get_timer_value(timer') = <<25, 0>>
             /\ ~timer'.running
       /\ (timer.page = "open" /\ reset_timer) =>
             /\ get_timer_value(timer') = <<25, 0>>
             /\ ~timer'.running]_vars

\* reset was the last click on a page whose timer had run and been paused,
\* and the display stands at the initial value
C21_Witness ==
    /\ timer.page = "open"
    /\ timer.clicked = "reset"
    /\ timer.cycles >= 1
    /\ ~timer.running
    /\ get_timer_value(timer) = <<25, 0>>

\* the user's qualifying rows that were in the ledger before row r was added
QualifyingBefore(r) == {o \in Qualifying(r.user_id) : o.id < r.id}

\* C22: complete_session answers with the user's count of completed work
\* sessions as it was before the call, plus one when the recorded type is
\* work and as it was when it is a break; a get_stats call that answers
\* next, the completed row still being the ledger's latest, returns the
\* same total_sessions.
C22_TotalCountsTheNewRow ==
    [][\A i \in 1..MaxReq :
          /\ (/\ complete_session_count(i)
              /\ req[i].loaded[1].session_type \in SessionTypes) =>
                LET row == req[i].loaded[1]
                    before == Cardinality(QualifyingBefore(row))
                IN resp'.total_sessions =
                      Some(IF row.session_type = "work" THEN before + 1
                           ELSE before)
          /\ (/\ get_stats_total(i)
              /\ resp.op = "complete" /\ resp.user = req[i].user
              /\ \A r \in sessions : r.id <= resp.session_id) =>
                resp'.total_sessions = resp.total_sessions]_vars

\* the user's completed work sessions started on day today - 7 or on a day
\* after today
OutsideHistogram(u, today) ==
    StartedOn(u, today - 7) \cup
    {r \in sessions : /\ r.user_id = u /\ r.session_type = "work"
                      /\ r.completed = TRUE
                      /\ r.started_at >= (today + 1) * MinutesPerDay}

\* C23: the figures of a dashboard read from a ledger nothing writes to
\* satisfy today_sessions <= week_sessions <= total_sessions and
\* sum(weekly_data) <= week_sessions; week_sessions exceeds the sum by the
\* number of the user's completed work sessions started on day today - 7 or
\* after today.
C23_DashboardFiguresOrdered ==
    dash.pc = "done" =>
        /\ dash.today_sessions <= dash.week_sessions
        /\ dash.week_sessions <= dash.total_sessions
        /\ SumSeq(dash.weekly_data) <= dash.week_sessions
        /\ dash.week_sessions - SumSeq(dash.weekly_data) =
              Cardinality(OutsideHistogram(dash.user, dash.today))

\* a dashboard was read on a day when the user had a counted session started
\* seven days before and one started on a later day: both are in
\* week_sessions and in no entry of the histogram
C23_Witness ==
    /\ dash.pc = "done"
    /\ StartedOn(dash.user, dash.today - 7) # {}
    /\ \E r \in OutsideHistogram(dash.user, dash.today) :
          r.started_at >= (dash.today + 1) * MinutesPerDay
    /\ dash.week_sessions = 2
    /\ SumSeq(dash.weekly_data) = 0

\* C13: once a row has completed = true, no later operation changes any of
\* its attributes: the row stays in the ledger as it is.
C13_CompletedRowsImmutable ==
    [][\A r \in sessions : r.completed = TRUE => r \in sessions']_vars

\* minutes / 60 rounded to a tenth of an hour, a half-way quotient going to
\* the even tenth
RECURSIVE RoundHalfEven(_)
RoundHalfEven(minutes) ==
    IF minutes < 0 THEN 0 - RoundHalfEven(0 - minutes)
    ELSE LET q == minutes \div 6
             rem == minutes % 6
         IN IF rem < 3 THEN q
            ELSE IF rem > 3 THEN q + 1
            ELSE IF q % 2 = 0 THEN q ELSE q + 1

\* the same, a half-way quotient going away from zero
RECURSIVE RoundHalfUp(_)
RoundHalfUp(minutes) ==
    IF minutes < 0 THEN 0 - RoundHalfUp(0 - minutes)
    ELSE IF minutes % 6 < 3 THEN minutes \div 6 ELSE (minutes \div 6) + 1

\* C15: the total_hours a dashboard shows is the sum of the durations of the
\* user's completed work sessions, divided by 60 and rounded to one decimal
\* place by one of the two rounding laws (half to even, half up); it is 0
\* when no session qualifies and 1.0 for three sessions of 25, 25 and 10
\* minutes.
C15_TotalHoursRounded ==
    dash.pc \in {"weekly_data", "recent_sessions", "done"} =>
        /\ dash.total_duration = SumDuration(Qualifying(dash.user))
        /\ dash.total_hours \in {RoundHalfEven(dash.total_duration),
                                  RoundHalfUp(dash.total_duration)}
        /\ Qualifying(dash.user) = {} => dash.total_hours = 0
        /\ (/\ Cardinality(Qualifying(dash.user)) = 3
            /\ {r.duration : r \in Qualifying(dash.user)} = {25, 10}
            /\ dash.total_duration = 60) => dash.total_hours = 10

RECURSIVE Concat(_)
Concat(qs) == IF qs = << >> THEN << >> ELSE Head(qs) \o Concat(Tail(qs))

RowById(id) == CHOOSE r \in sessions : r.id = id

Least(a, b) == IF a < b THEN a ELSE b

C16_DeleteCascades ==
    [][\A u \in users :
          delete_user(u) =>
             /\ \A r \in sessions' \cup settings' : r.user_id # u
             /\ \A v \in users \ {u} :
                   /\ RowsOf(v)' = RowsOf(v)
                   /\ SettingsOf(v)' = SettingsOf(v)]_vars

\* C12: the figures of one dashboard are computed from one committed state
\* of the ledger, also when complete_session calls run during the read: the
\* last entry of the histogram equals today_sessions, and total_duration is
\* the sum of the durations of total_sessions of the user's qualifying rows.
C12_FiguresAgree ==
    dash.pc = "done" =>
        /\ dash.weekly_data[7] = dash.today_sessions
        /\ \E S \in SUBSET Qualifying(dash.user) :
              /\ Cardinality(S) = dash.total_sessions
              /\ SumDuration(S) = dash.total_duration

-----------------------------------------------------------------------------
(* Claims about the settings *)

\* the ranges of the settings, as documented
Within(x, lo, hi) == x # NULL /\ x[1] >= lo /\ x[1] <= hi
InRange(form) ==
    /\ Within(form.work_duration, 1, 60)
    /\ Within(form.short_break_duration, 1, 30)
    /\ Within(form.long_break_duration, 1, 60)
    /\ Within(form.long_break_interval, 2, 10)

\* request i answers in this step
Submits(i) == req[i].pc = "form" /\ req'[i].pc = "idle"

\* C1: under any interleaving of /settings requests and registrations, no
\* user has more than one row of settings.
C1_OneSettingsRowPerUser ==
    \A u \in users : Cardinality(SettingsOf(u)) <= 1

\* C14: when a /settings request of a user has answered and the user's next
\* one starts with no request in flight, the second finds a row, creates
\* none, and is served the row the first was served; serving it changes no
\* stored field.
C14_SameSettingsIdTwice ==
    [][\A i \in 1..MaxReq :
          /\ \A u \in users :
                (/\ settings_lookup(i, u)
                 /\ \A j \in 1..MaxReq : req[j].pc = "idle"
                 /\ resp.op = "settings" /\ resp.user = u) =>
                    /\ req'[i].pc = "form"
                    /\ req'[i].loaded[1].id = resp.row
          /\ settings_submit(i, "GET", NoForm) =>
                /\ settings' = settings
                /\ resp'.row = req[i].loaded[1].id]_vars

\* the values the columns of a fresh settings row are documented to take
HasDefaults(s) ==
    /\ s.work_duration = 25 /\ s.short_break_duration = 5
    /\ s.long_break_duration = 15 /\ s.long_break_interval = 4
    /\ ~s.auto_start_breaks /\ ~s.auto_start_pomodoros
    /\ s.notifications_enabled /\ s.sound_enabled
    /\ s.theme = "light"

\* C18: when a registration has finished, the new user has exactly one row of
\* settings and it holds the defaults; a row the /settings handler creates
\* on first access holds the same defaults.
C18_RegisteredHasOneDefaultRow ==
    [][/\ \A u \in reg :
             register_settings(u) =>
                /\ Cardinality({s \in settings' : s.user_id = u}) = 1
                /\ \A s \in settings' : s.user_id = u => HasDefaults(s)
       /\ \A i \in 1..MaxReq :
             settings_create(i) =>
                \A s \in settings' \ settings : HasDefaults(s)]_vars

\* C3: a submitted form with a field out of its range is rejected as a
\* whole: no stored field of any settings row changes.
C3_RejectedUpdateChangesNothing ==
    [][\A i \in 1..MaxReq :
          Submits(i) =>
             \A f \in Forms :
                (~InRange(f) /\ settings_submit(i, "POST", f)) =>
                   /\ resp'.accepted = FALSE
                   /\ settings' = settings]_vars

\* a form was rejected while the row held values other than the defaults
C3_Witness ==
    /\ resp.op = "settings"
    /\ resp.method = "POST"
    /\ resp.accepted = FALSE
    /\ \E r \in settings : r.id = resp.row /\ r.work_duration = 60

\* C4: a submitted form is accepted exactly when its four numbers are in
\* their ranges, and after an accepted update a read of the user's settings
\* returns the submitted values.
C4_AcceptsInRangeAndReadsBack ==
    [][\A i \in 1..MaxReq :
          Submits(i) =>
             \A f \in Forms :
                settings_submit(i, "POST", f) =>
                   /\ resp'.accepted = InRange(f)
                   /\ InRange(f) =>
                         \A r \in settings' :
                            r.user_id = req[i].user =>
                               \A k \in FormFields : r[k] = Data(f, k)]_vars
====
